---- MODULE Spec2Model ----
(***************************************************************************)
(* msedgedriver-tool (src/src/main.rs): find the installed WebView2        *)
(* version through PowerShell registry lookups, template the driver URL,   *)
(* fetch the zip archive (body limited to 100 MiB) and extract one member  *)
(* into the working directory.                                             *)
(*                                                                         *)
(* The model runs either the whole program (entry = "main") or one of its  *)
(* functions on its own (entry = the function's name), with the outcomes   *)
(* of the external mechanisms (process spawn, HTTP, zip decoding, file     *)
(* system) drawn nondeterministically when the code calls them.            *)
(***************************************************************************)
EXTENDS Integers, Sequences, FiniteSets, TLC

VARIABLES
    entry,      \* the function this run starts in
    os,         \* std::env::consts::OS of the build target
    arch,       \* std::env::consts::ARCH of the build target
    pc,         \* position of the run
    registry,   \* environment: per install, the outcomes its lookup can have
    idx,        \* webview2_version: index into Webview2Install::ALL (1-based)
    lookups,    \* history: one record per PowerShell lookup invoked so far
    version,    \* main: `webview2_version` (Option)
    platform,   \* main: `platform` (Option)
    url,        \* main: `driver_url` / fetch's argument (Option)
    requests,   \* history: the URLs of the HTTP GET requests issued so far
    response,   \* history: what the HTTP exchange delivered (Option)
    archive,    \* main: `archive` / extract's argument (Option)
    filename,   \* main: `filename` / extract's argument (Option)
    fs,         \* working directory: path -> content, or NoFile
    fs0,        \* history: the working directory as the run found it
    events,     \* history: the externally visible steps, in order
    result      \* what the entry function returned (Running until it returns)

vars == <<entry, os, arch, pc, registry, idx, lookups, version, platform, url,
          requests, response, archive, filename, fs, fs0, events, result>>

----------------------------------------------------------------------------
(* Bounds of the model.                                                    *)

\* longest content of an archive member, in bytes
MaxLen == 2
\* body sizes range from LIMIT - MaxDelta to LIMIT + MaxDelta
MaxDelta == 1

----------------------------------------------------------------------------
(* Option and Result values.                                               *)

None == [some |-> FALSE]
Some(v) == [some |-> TRUE, val |-> v]

Running == [tag |-> "Running"]
Ok(v) == [tag |-> "Ok", val |-> v]
\* An Error value: `kind` is the variant of enum Error, `cause` the wrapped
\* library error (or the (os, arch) pair of Error::Platform).
Err(kind, cause) == [tag |-> "Err", kind |-> kind, cause |-> cause]

Unit == "()"

\* enum Error
ErrorKinds == {"Powershell", "NoInstallFound", "Platform", "Unsupported",
               "Io", "UReq", "Zip"}

IsOk(r) == r.tag = "Ok"
IsErr(r) == r.tag = "Err"
IsErrKind(r, k) == r.tag = "Err" /\ r.kind = k

----------------------------------------------------------------------------
(* Strings are sequences of characters; process output is a sequence of    *)
(* bytes, written as the character they encode ("U+00A0" for the bytes of  *)
(* that code point), "0xFF" being a byte that is not valid UTF-8.          *)

\* str::trim strips the characters with the Unicode White_Space property
Whitespace ==
    { "\t", "\n", "U+000B", "\f", "\r", " ", "U+0085", "U+00A0", "U+1680",
      "U+2000", "U+2001", "U+2002", "U+2003", "U+2004", "U+2005", "U+2006",
      "U+2007", "U+2008", "U+2009", "U+200A", "U+2028", "U+2029", "U+202F",
      "U+205F", "U+3000" }

\* String::from_utf8_lossy: invalid bytes become U+FFFD
FromUtf8Lossy(bytes) ==
    [k \in 1..Len(bytes) |-> IF bytes[k] = "0xFF" THEN "U+FFFD" ELSE bytes[k]]

RECURSIVE TrimStart(_)
TrimStart(s) ==
    IF s # <<>> /\ Head(s) \in Whitespace THEN TrimStart(Tail(s)) ELSE s

RECURSIVE TrimEnd(_)
TrimEnd(s) ==
    IF s # <<>> /\ s[Len(s)] \in Whitespace
    THEN TrimEnd(SubSeq(s, 1, Len(s) - 1))
    ELSE s

\* str::trim
Trim(s) == TrimEnd(TrimStart(s))

----------------------------------------------------------------------------
(* Version resolution.                                                     *)

\* Webview2Install::ALL
ALL == <<"Global64", "Global32", "User64", "User32">>

\* std::process::Output as far as the program reads it
Output(success, stdout) == [success |-> success, stdout |-> stdout]

\* Version::from_output: Some(trimmed stdout) whenever the exit status is
\* success, None otherwise
FromOutput(output) ==
    IF output.success
    THEN Some(Trim(FromUtf8Lossy(output.stdout)))
    ELSE None

\* What `Command::output()` can give back: Err(io::Error) when the process
\* cannot be spawned, Ok(Output) otherwise.
SuccessStdouts ==
    { <<>>,
      <<"\f">>,
      <<" ", "\r", "\n">>,
      <<"1", ".", "2", "\r", "\n">>,
      <<"U+00A0", "1", ".", "2", "U+0085">>,
      <<" ", "9", " ", "9", "\n">>,
      <<"1", "#", "2", " ", "3", "\n">>,
      <<"1", "?", "2", "U+0060", "3">>,
      <<"1", "?", "2", "U+0022", "3">>,
      <<"a*65478", "\n">>,
      <<"a*65479", "\n">>,
      <<"0xFF", "\n">> }

FailureStdouts == { <<>>, <<"1", ".", "2", "\n">> }

SpawnFailed == [spawned |-> FALSE, success |-> FALSE, stdout |-> <<>>]
Exited(success, stdout) == [spawned |-> TRUE, success |-> success, stdout |-> stdout]

CommandOutcomes ==
    {SpawnFailed}
    \cup {Exited(TRUE, s) : s \in SuccessStdouts}
    \cup {Exited(FALSE, s) : s \in FailureStdouts}

\* Mutant: a lookup that cannot be spawned counts as "not found here"
PwshGetWebview2Registry_SpawnAsNone(outcome) ==
    IF outcome.spawned
    THEN Ok(FromOutput(Output(outcome.success, outcome.stdout)))
    ELSE Ok(None)

\* pwsh_get_webview2_registry on the outcome of Command::output():
\* .map(Version::from_output).map_err(Error::Powershell)
PwshGetWebview2Registry(outcome) ==
    IF outcome.spawned
    THEN Ok(FromOutput(Output(outcome.success, outcome.stdout)))
    ELSE Err("Powershell", "io::Error")

----------------------------------------------------------------------------
(* Platform and URL.                                                       *)

OSes == {"windows", "macos", "linux", "freebsd"}
ARCHes == {"x86_64", "aarch64", "x86", "arm"}

\* Mutant: the guard on the build target is missing
CfgWindows_Always(targetOs) == TRUE

\* cfg!(windows): the build target is Windows
CfgWindows(targetOs) == targetOs = "windows"

\* Mutant: two labels swapped, and Linux on aarch64 taken for x86_64
PlatformCurrent_Swapped(o, a) ==
    CASE o = "windows" /\ a = "x86_64"  -> Ok("win64")
      [] o = "windows" /\ a = "aarch64" -> Ok("win32")
      [] o = "windows" /\ a = "x86"     -> Ok("arm64")
      [] o = "macos"   /\ a = "x86_64"  -> Ok("mac64")
      [] o = "macos"   /\ a = "aarch64" -> Ok("mac64_m1")
      [] o = "linux"                    -> Ok("linux64")
      [] OTHER -> Err("Platform", [os |-> o, arch |-> a])

\* Platform::current: match (OS, ARCH)
PlatformCurrent(o, a) ==
    CASE o = "windows" /\ a = "x86_64"  -> Ok("win64")
      [] o = "windows" /\ a = "aarch64" -> Ok("arm64")
      [] o = "windows" /\ a = "x86"     -> Ok("win32")
      [] o = "macos"   /\ a = "x86_64"  -> Ok("mac64")
      [] o = "macos"   /\ a = "aarch64" -> Ok("mac64_m1")
      [] o = "linux"   /\ a = "x86_64"  -> Ok("linux64")
      [] OTHER -> Err("Platform", [os |-> o, arch |-> a])

\* driver_url:
\* format!("https://msedgedriver.microsoft.com/{version}/edgedriver_{platform}.zip")
DriverUrl(v, p) ==
    <<"https://msedgedriver.microsoft.com/">> \o v \o <<"/edgedriver_", p, ".zip">>

\* main: let filename = if OS == "windows" { "msedgedriver.exe" } else { "msedgedriver" }
Filename(targetOs) ==
    IF targetOs = "windows" THEN "msedgedriver.exe" ELSE "msedgedriver"

----------------------------------------------------------------------------
(* Archives, files and HTTP responses.                                     *)

Bytes == {0, 1}
Contents == UNION {[1..n -> Bytes] : n \in 0..MaxLen}

FileNames == {"msedgedriver.exe", "msedgedriver"}

\* A downloaded body: its length in bytes and what the zip reader makes of
\* it (valid or not; per member name, the member's decompressed content).
Body(size, valid, entries) == [size |-> size, valid |-> valid, entries |-> entries]

NoEntries == [n \in FileNames |-> None]

ZipSamples ==
    {[valid |-> FALSE, entries |-> NoEntries]}
    \cup {[valid |-> TRUE,
           entries |-> [n \in FileNames |-> IF n \in names THEN Some(c) ELSE None]] :
             names \in SUBSET FileNames, c \in Contents}

\* fetch: .limit(100 * 1024 * 1024)
LIMIT == 100 * 1024 * 1024

BodySizes == (100 * 1024 * 1024 - MaxDelta)..(100 * 1024 * 1024 + MaxDelta)

Bodies == {Body(n, z.valid, z.entries) : n \in BodySizes, z \in ZipSamples}

\* ureq::get(driver_url) parses the URL before anything is sent.  The part
\* from the first # on is the fragment: it is not examined and not sent.
\* Before it, the path runs up to the first ?, the query from there on.
\* Characters outside ASCII are let through in both.
C0Controls ==
    { "U+0000", "U+0001", "U+0002", "U+0003", "U+0004", "U+0005", "U+0006",
      "U+0007", "U+0008", "\t", "\n", "U+000B", "\f", "\r", "U+000E", "U+000F",
      "U+0010", "U+0011", "U+0012", "U+0013", "U+0014", "U+0015", "U+0016",
      "U+0017", "U+0018", "U+0019", "U+001A", "U+001B", "U+001C", "U+001D",
      "U+001E", "U+001F" }

\* Refused in the path: controls, space, < > and the grave accent U+0060
\* (the double quote U+0022 is let through)
InvalidPathChars == C0Controls \cup {" ", "<", ">", "U+0060"}

\* Refused in the query: controls, space, the double quote U+0022, < >
\* (the grave accent is let through)
InvalidQueryChars == C0Controls \cup {" ", "U+0022", "<", ">"}

\* Position of the first c in u, Len(u) + 1 when there is none
FirstIndexOf(c, u) ==
    IF \E k \in 1..Len(u) : u[k] = c
    THEN CHOOSE k \in 1..Len(u) : u[k] = c /\ \A j \in 1..(k - 1) : u[j] # c
    ELSE Len(u) + 1

\* The URL as the client holds and requests it: without the fragment
RequestTarget(u) == SubSeq(u, 1, FirstIndexOf("#", u) - 1)

\* The longest URL the client takes, in bytes, fragment included
MaxUriLen == 65534

\* Long outputs are written with one element for a run of the letter a
RunLength == ("a*65478" :> 65478) @@ ("a*65479" :> 65479) @@ ("a*70000" :> 70000)

\* The pieces driver_url is put together from, with their length in bytes
LiteralLength ==
    ("https://msedgedriver.microsoft.com/" :> 35) @@ ("/edgedriver_" :> 12)
    @@ (".zip" :> 4) @@ ("win64" :> 5) @@ ("arm64" :> 5) @@ ("win32" :> 5)
    @@ ("mac64" :> 5) @@ ("mac64_m1" :> 8) @@ ("linux64" :> 7)

\* Characters of two and of three bytes in UTF-8
TwoByteChars == {"U+0085", "U+00A0"}
ThreeByteChars ==
    { "U+1680", "U+2000", "U+2001", "U+2002", "U+2003", "U+2004", "U+2005",
      "U+2006", "U+2007", "U+2008", "U+2009", "U+200A", "U+2028", "U+2029",
      "U+202F", "U+205F", "U+3000", "U+FFFD" }

\* Length in bytes of one element of a string
ByteLen(c) ==
    IF c \in DOMAIN RunLength THEN RunLength[c]
    ELSE IF c \in DOMAIN LiteralLength THEN LiteralLength[c]
    ELSE IF c \in TwoByteChars THEN 2
    ELSE IF c \in ThreeByteChars THEN 3
    ELSE 1

\* str::len: length in bytes
RECURSIVE StrLen(_)
StrLen(u) == IF u = <<>> THEN 0 ELSE ByteLen(Head(u)) + StrLen(Tail(u))

\* The URL is refused when it is longer than MaxUriLen bytes, counted with
\* its fragment, or has a character its position does not allow
UriValid(u) ==
    LET w == RequestTarget(u)
        q == FirstIndexOf("?", w)
    IN /\ StrLen(u) <= MaxUriLen
       /\ \A k \in 1..(q - 1) : w[k] \notin InvalidPathChars
       /\ \A k \in (q + 1)..Len(w) : w[k] \notin InvalidQueryChars

\* call() follows at most this many redirects (the default of the HTTP client)
MaxRedirects == 10

\* The redirect targets the servers answer with, one after the other
RedirectTarget == <<"https://redirect.example/edgedriver.zip">>
RedirectCounts == {0, 1, 2, MaxRedirects, MaxRedirects + 1}
RedirectChains == {[k \in 1..n |-> RedirectTarget] : n \in RedirectCounts}

NoBody == Body(0, FALSE, NoEntries)

\* What the HTTP exchange can do.  `redirects` are the targets the servers
\* redirect to, `call` is what happens at the last URL: no connection
\* ("Connect": nothing is sent to it), a failure after the request was sent
\* ("Transport"), an error status ("StatusCode"), one redirect more than
\* call() follows ("Redirect"), or a response ("Ok") whose body is then
\* read, the read delivering the body or breaking off with an I/O error.
HttpOutcomes ==
    {[redirects |-> d, call |-> c, read |-> "Ok", body |-> NoBody] :
        d \in {x \in RedirectChains : Len(x) <= MaxRedirects},
        c \in {"Connect", "Transport", "StatusCode"}}
    \cup {[redirects |-> d, call |-> "Redirect", read |-> "Ok", body |-> NoBody] :
            d \in {x \in RedirectChains : Len(x) > MaxRedirects}}
    \cup {[redirects |-> d, call |-> "Ok", read |-> "Io", body |-> NoBody] :
            d \in {x \in RedirectChains : Len(x) <= MaxRedirects}}
    \cup {[redirects |-> d, call |-> "Ok", read |-> "Ok", body |-> b] :
            d \in {x \in RedirectChains : Len(x) <= MaxRedirects}, b \in Bodies}

\* The GET requests fetch issues for URL u when the exchange goes as
\* outcome: none for a URL it refuses; otherwise u and the redirect targets
\* it follows, the last URL left out when no connection to it is made or
\* when it is one redirect too many
RequestsOf(u, outcome) ==
    LET all == <<RequestTarget(u)>> \o outcome.redirects IN
      IF ~UriValid(u) THEN <<>>
      ELSE IF Len(outcome.redirects) > MaxRedirects
      THEN SubSeq(all, 1, MaxRedirects + 1)
      ELSE IF outcome.call = "Connect"
      THEN SubSeq(all, 1, Len(all) - 1)
      ELSE all

\* Body::with_config().limit(limit).read_to_vec() on a body that arrives
\* whole: a body of `limit` bytes or more is refused, a smaller one returned
ReadToVec(limit, body) ==
    IF body.size < limit
    THEN Ok(body)
    ELSE Err("UReq", "BodyExceedsLimit")

\* fetch of URL u on the outcome of the HTTP exchange; both `?` go through
\* From<ureq::Error> for Error
FetchResult(u, outcome) ==
    IF ~UriValid(u) THEN Err("UReq", "InvalidUri")
    ELSE IF Len(outcome.redirects) > MaxRedirects THEN Err("UReq", "TooManyRedirects")
    ELSE IF outcome.call # "Ok" THEN Err("UReq", outcome.call)
    ELSE IF outcome.read # "Ok" THEN Err("UReq", outcome.read)
    ELSE ReadToVec(LIMIT, outcome.body)

\* The working directory
OldContent == <<7, 7, 7>>
FsStates == [FileNames -> {None, Some(OldContent)}]

IsPrefix(p, s) == Len(p) <= Len(s) /\ p = SubSeq(s, 1, Len(p))

\* extract up to File::create: Ok(member content) when the archive opens
\* and has the member, the Zip error otherwise
OpenMember(body, name) ==
    IF ~body.valid THEN Err("Zip", "InvalidArchive")
    ELSE IF ~body.entries[name].some THEN Err("Zip", "FileNotFound")
    ELSE Ok(body.entries[name].val)

\* File::create(path): creates the file, or truncates it
FileCreate(files, path) == [files EXCEPT ![path] = Some(<<>>)]

\* The file after the first `flushed` bytes of `content` were written to it
\* from offset 0: they replace what was there, anything longer stays
FileWrite(files, path, content, flushed) ==
    LET old == files[path].val IN
      [files EXCEPT ![path] =
          Some(SubSeq(content, 1, flushed) \o SubSeq(old, flushed + 1, Len(old)))]

----------------------------------------------------------------------------
(* Initial states: the program, or one function called on its own.         *)

NoFiles == [n \in FileNames |-> None]

Labels == {"win64", "arm64", "win32", "mac64", "mac64_m1", "linux64"}
VersionSamples ==
    { <<>>, <<"1", ".", "2">>, <<"9", " ", "9">>, <<"1", "#", "2", " ", "3">>,
      <<"1", "?", "2", "U+0060", "3">>, <<"1", "?", "2", "U+0022", "3">>,
      <<"a*65478">>, <<"a*65479">>, <<"1", "#", "a*70000">> }

Start(e, at) ==
    /\ entry = e
    /\ pc = at
    /\ idx = 1
    /\ lookups = <<>>
    /\ version = None
    /\ platform = None
    /\ requests = <<>>
    /\ response = None
    /\ events = <<>>
    /\ result = Running
    /\ fs0 = fs

\* A machine left open: every lookup can fail to spawn, exit cleanly with
\* any of the sample stdouts, or fail printing nothing
AnyRegistry ==
    [i \in 1..Len(ALL) |->
        {SpawnFailed} \cup {Exited(TRUE, s) : s \in SuccessStdouts}
                      \cup {Exited(FALSE, <<>>)}]

InitMain ==
    /\ os \in OSes /\ arch \in ARCHes
    /\ registry = AnyRegistry
    /\ fs \in FsStates
    /\ url = None /\ archive = None /\ filename = None
    /\ Start("main", "main")

\* webview2_version on a machine whose registry is given: each lookup has
\* one outcome
InitWebview2Version ==
    /\ os = "windows" /\ arch = "x86_64"
    /\ registry \in [1..Len(ALL) -> {{o} : o \in CommandOutcomes}]
    /\ fs = NoFiles
    /\ url = None /\ archive = None /\ filename = None
    /\ Start("webview2_version", "webview2_version")

InitPlatformCurrent ==
    /\ os \in OSes /\ arch \in ARCHes
    /\ registry = AnyRegistry
    /\ fs = NoFiles
    /\ url = None /\ archive = None /\ filename = None
    /\ Start("Platform::current", "platform")

InitFetch ==
    /\ os = "windows" /\ arch = "x86_64"
    /\ registry = AnyRegistry
    /\ fs = NoFiles
    /\ url \in {Some(DriverUrl(v, p)) : v \in VersionSamples, p \in Labels}
    /\ archive = None /\ filename = None
    /\ Start("fetch", "fetch")

InitExtract ==
    /\ os = "windows" /\ arch = "x86_64"
    /\ registry = AnyRegistry
    /\ fs \in FsStates
    /\ url = None
    /\ archive \in {Some(b) : b \in Bodies}
    /\ filename \in {Some(n) : n \in FileNames}
    /\ Start("extract", "extract")

Init ==
    \/ InitMain
    \/ InitWebview2Version
    \/ InitPlatformCurrent
    \/ InitFetch
    \/ InitExtract

----------------------------------------------------------------------------
(* Steps.                                                                  *)

\* The entry function returns r
Finish(r) == result' = r /\ pc' = "done"

\* main: if !cfg!(windows) { return Err(Error::Unsupported) }
MainStart ==
    /\ pc = "main"
    /\ IF ~CfgWindows(os)
       THEN Finish(Err("Unsupported", "none"))
       ELSE pc' = "webview2_version" /\ UNCHANGED result
    /\ UNCHANGED <<entry, os, arch, registry, response, idx, lookups, version,
                   platform, url, requests, archive, filename, fs, fs0, events>>

\* webview2_version returns r (to main, which applies `?`, or to the caller)
ReturnVersion(r) ==
    IF entry = "main" /\ IsOk(r)
    THEN version' = Some(r.val) /\ pc' = "platform" /\ UNCHANGED result
    ELSE Finish(r) /\ UNCHANGED version

\* webview2_version: one iteration of `for install in Webview2Install::ALL`
Webview2Lookup ==
    /\ pc = "webview2_version"
    /\ idx <= Len(ALL)
    /\ \E o \in registry[idx] :
         LET r == PwshGetWebview2Registry(o) IN
           /\ lookups' = Append(lookups, [install |-> ALL[idx], spawned |-> o.spawned,
                                           success |-> o.success, stdout |-> o.stdout])
           /\ events' = Append(events, "lookup")
           /\ IF IsErr(r)
              THEN ReturnVersion(r) /\ UNCHANGED idx
              ELSE IF r.val.some
              THEN ReturnVersion(Ok(r.val.val)) /\ UNCHANGED idx
              ELSE idx' = idx + 1 /\ UNCHANGED <<pc, version, result>>
    /\ UNCHANGED <<entry, os, arch, registry, response, platform, url,
                   requests, archive, filename, fs, fs0>>

\* webview2_version: the loop ran out: Err(Error::NoInstallFound)
Webview2Exhausted ==
    /\ pc = "webview2_version"
    /\ idx > Len(ALL)
    /\ ReturnVersion(Err("NoInstallFound", "none"))
    /\ UNCHANGED <<entry, os, arch, registry, response, idx, lookups, platform,
                   url, requests, archive, filename, fs, fs0, events>>

\* Mutant: main goes on to the download when Platform::current fails
PlatformStep_IgnoreError ==
    /\ pc = "platform"
    /\ events' = Append(events, "platform")
    /\ LET r == PlatformCurrent(os, arch) IN
         IF entry = "main"
         THEN /\ platform' = IF IsOk(r) THEN Some(r.val) ELSE None
              /\ url' = Some(DriverUrl(version.val, IF IsOk(r) THEN r.val ELSE "win64"))
              /\ pc' = "fetch"
              /\ UNCHANGED result
         ELSE Finish(r) /\ UNCHANGED <<platform, url>>
    /\ UNCHANGED <<entry, os, arch, registry, response, idx, lookups, version,
                   requests, archive, filename, fs, fs0>>

\* Platform::current()?, and in main the driver_url that follows it
PlatformStep ==
    /\ pc = "platform"
    /\ events' = Append(events, "platform")
    /\ LET r == PlatformCurrent(os, arch) IN
         IF entry = "main" /\ IsOk(r)
         THEN /\ platform' = Some(r.val)
              /\ url' = Some(DriverUrl(version.val, r.val))
              /\ pc' = "fetch"
              /\ UNCHANGED result
         ELSE Finish(r) /\ UNCHANGED <<platform, url>>
    /\ UNCHANGED <<entry, os, arch, registry, response, idx, lookups, version,
                   requests, archive, filename, fs, fs0>>

\* fetch(&driver_url)?, and in main the filename that follows it
Fetch ==
    /\ pc = "fetch"
    /\ \E o \in HttpOutcomes :
         LET r == FetchResult(url.val, o)
             sent == RequestsOf(url.val, o)
         IN
           /\ requests' = requests \o sent
           /\ events' = events \o [k \in 1..Len(sent) |-> "http"]
           /\ response' = IF UriValid(url.val) THEN Some(o) ELSE None
           /\ IF entry = "main" /\ IsOk(r)
              THEN /\ archive' = Some(r.val)
                   /\ filename' = Some(Filename(os))
                   /\ pc' = "extract"
                   /\ UNCHANGED result
              ELSE Finish(r) /\ UNCHANGED <<archive, filename>>
    /\ UNCHANGED <<entry, os, arch, registry, idx, lookups, version, platform,
                   url, fs, fs0>>

\* Mutant: the destination is created before the member is looked up
ExtractOpen_CreateFirst ==
    /\ pc = "extract"
    /\ \E created \in BOOLEAN :
         IF ~created
         THEN Finish(Err("Io", "create")) /\ UNCHANGED <<fs, events>>
         ELSE /\ fs' = FileCreate(fs, filename.val)
              /\ events' = Append(events, "create")
              /\ LET m == OpenMember(archive.val, filename.val) IN
                   IF IsErr(m) THEN Finish(m) ELSE pc' = "copy" /\ UNCHANGED result
    /\ UNCHANGED <<entry, os, arch, registry, response, idx, lookups, version,
                   platform, url, requests, archive, filename, fs0>>

\* extract: ZipArchive::new(..)?, archive.by_name(filename)?, File::create(filename)?
ExtractOpen ==
    /\ pc = "extract"
    /\ LET m == OpenMember(archive.val, filename.val) IN
         IF IsErr(m)
         THEN Finish(m) /\ UNCHANGED <<fs, events>>
         ELSE \E created \in BOOLEAN :
                IF created
                THEN /\ fs' = FileCreate(fs, filename.val)
                     /\ events' = Append(events, "create")
                     /\ pc' = "copy"
                     /\ UNCHANGED result
                ELSE Finish(Err("Io", "create")) /\ UNCHANGED <<fs, events>>
    /\ UNCHANGED <<entry, os, arch, registry, response, idx, lookups, version,
                   platform, url, requests, archive, filename, fs0>>

\* Mutant: a failed copy removes the destination file
ExtractCopy_Cleanup ==
    /\ pc = "copy"
    /\ LET member == archive.val.entries[filename.val].val IN
         \E copied \in 0..Len(member), flushed \in 0..Len(member), failed \in BOOLEAN :
           /\ flushed <= copied
           /\ ~failed => copied = Len(member)
           /\ fs' = IF failed THEN [fs EXCEPT ![filename.val] = None]
                     ELSE FileWrite(fs, filename.val, member, flushed)
           /\ events' = Append(events,
                 IF ~failed THEN "copy"
                 ELSE IF copied < Len(member) THEN "copy failed part-way"
                 ELSE "copy failed at end")
           /\ Finish(IF failed THEN Err("Io", "copy") ELSE Ok(Unit))
    /\ UNCHANGED <<entry, os, arch, registry, response, idx, lookups, version,
                   platform, url, requests, archive, filename, fs0>>

\* extract: std::io::copy(&mut driver, &mut writer)?; Ok(()).  The copy hands
\* `copied` bytes to the BufWriter and then either fails (reading the member
\* or writing the file) or is complete; the BufWriter is dropped without an
\* explicit flush, so `flushed <= copied` bytes are in the file afterwards.
ExtractCopy ==
    /\ pc = "copy"
    /\ LET member == archive.val.entries[filename.val].val IN
         \E copied \in 0..Len(member), flushed \in 0..Len(member), failed \in BOOLEAN :
           /\ flushed <= copied
           /\ ~failed => copied = Len(member)
           /\ fs' = FileWrite(fs, filename.val, member, flushed)
           /\ events' = Append(events,
                 IF ~failed THEN "copy"
                 ELSE IF copied < Len(member) THEN "copy failed part-way"
                 ELSE "copy failed at end")
           /\ Finish(IF failed THEN Err("Io", "copy") ELSE Ok(Unit))
    /\ UNCHANGED <<entry, os, arch, registry, response, idx, lookups, version,
                   platform, url, requests, archive, filename, fs0>>

Next ==
    \/ MainStart
    \/ Webview2Lookup
    \/ Webview2Exhausted
    \/ PlatformStep
    \/ Fetch
    \/ ExtractOpen
    \/ ExtractCopy

Spec == Init /\ [][Next]_vars

----------------------------------------------------------------------------
(* What the claims speak of.                                               *)

Done == pc = "done"
HundredMiB == 100 * 1024 * 1024

\* The outcome of the lookup for install i when the registry is given
Determined == \A i \in 1..Len(ALL) : Cardinality(registry[i]) = 1
OutcomeOf(i) == CHOOSE o \in registry[i] : TRUE

TrimmedStdout(o) == Trim(FromUtf8Lossy(o.stdout))

\* A lookup "succeeds" in the specification's sense: clean exit with a
\* non-empty trimmed stdout
Yields(o) == o.spawned /\ o.success /\ TrimmedStdout(o) # <<>>
\* A lookup that ran and found nothing, in the specification's sense
NotFound(o) == o.spawned /\ ~Yields(o)

\* What webview2_version returned, Running while it has not
Webview2Returned ==
    IF entry = "webview2_version" THEN result
    ELSE IF version.some THEN Ok(version.val)
    ELSE IF entry = "main" /\ result.tag = "Err"
            /\ result.kind \in {"Powershell", "NoInstallFound"} THEN result
    ELSE Running

\* What fetch returned, Running while it has not
FetchReturned ==
    IF entry = "fetch" THEN result
    ELSE IF entry = "main" /\ archive.some THEN Ok(archive.val)
    ELSE IF entry = "main" /\ result.tag = "Err" /\ result.kind = "UReq" THEN result
    ELSE Running

\* extract was called and has returned
ExtractReturned == entry \in {"main", "extract"} /\ archive.some /\ Done

Rank(e) ==
    CASE e = "lookup" -> 1
      [] e = "platform" -> 2
      [] e = "http" -> 3
      [] e = "create" -> 4
      [] OTHER -> 5

Count(e) == Cardinality({k \in 1..Len(events) : events[k] = e})
Happened(e) == Count(e) > 0
LastEvent == IF events = <<>> THEN "none" ELSE events[Len(events)]

----------------------------------------------------------------------------
(* C1: when install k is the first whose lookup exits cleanly with a       *)
(* non-empty trimmed stdout (every earlier lookup having run and found     *)
(* nothing), webview2_version returns exactly that trimmed stdout and      *)
(* invokes no lookup after k.                                              *)
C1_ShortCircuit ==
    (entry = "webview2_version" /\ Determined) =>
        \A k \in 1..Len(ALL) :
            (Yields(OutcomeOf(k)) /\ \A j \in 1..(k - 1) : NotFound(OutcomeOf(j)))
            => /\ Len(lookups) <= k
               /\ Done => (IsOk(result) /\ result.val = TrimmedStdout(OutcomeOf(k)))

(* C2: the version webview2_version returns, and the version main puts     *)
(* into the download URL, is never the empty string: a clean exit with     *)
(* empty or whitespace-only stdout counts as "not found".                  *)
C2_VersionNeverEmpty ==
    /\ IsOk(Webview2Returned) => Webview2Returned.val # <<>>
    /\ entry = "main" =>
          \A k \in 1..Len(requests) : \A p \in Labels : requests[k] # DriverUrl(<<>>, p)

(* C3: when every lookup runs and none of the four installs yields a       *)
(* version, webview2_version fails with NoInstallFound.                    *)
C3_NoInstallFound ==
    (entry = "webview2_version" /\ Determined /\ Done
       /\ \A k \in 1..Len(ALL) : NotFound(OutcomeOf(k)))
    => IsErrKind(result, "NoInstallFound")

(* C8: a lookup that cannot be spawned makes webview2_version fail at once *)
(* with the Powershell error; no install after it is queried, whatever its *)
(* lookup would have given.                                                *)
C8_SpawnFailureAborts ==
    \A k \in 1..Len(lookups) :
        ~lookups[k].spawned
        => /\ k = Len(lookups)
           /\ IsErrKind(Webview2Returned, "Powershell")
           /\ pc # "webview2_version"

C8_Witness ==
    /\ entry = "webview2_version" /\ Determined /\ Done
    /\ Len(lookups) = 2
    /\ lookups[1].spawned /\ ~lookups[1].success
    /\ ~lookups[2].spawned
    /\ Yields(OutcomeOf(3))
    /\ IsErrKind(result, "Powershell")

(* C4: extract on a valid archive without a member of exactly the          *)
(* requested name fails with the zip library's file-not-found error, and   *)
(* the working directory is as it was: no file created, truncated or       *)
(* written.                                                                *)
C4_MemberNotFound ==
    (ExtractReturned /\ archive.val.valid /\ ~archive.val.entries[filename.val].some)
    => /\ IsErrKind(result, "Zip") /\ result.cause = "FileNotFound"
       /\ fs = fs0
       /\ ~Happened("create")

C4_Witness ==
    /\ ExtractReturned
    /\ archive.val.valid
    /\ filename.val = "msedgedriver.exe"
    /\ ~archive.val.entries["msedgedriver.exe"].some
    /\ archive.val.entries["msedgedriver"].some
    /\ fs0["msedgedriver.exe"] = Some(OldContent)
    /\ IsErrKind(result, "Zip")

(* C5: main runs version resolution, platform and URL, fetch, extract in   *)
(* that order, each only after the earlier ones succeeded: no HTTP request *)
(* without a version and a platform, no file created without a fetched     *)
(* archive, and a failing stage ends the run with its error before any     *)
(* later stage acts.                                                       *)
C5_PipelineOrder ==
    entry = "main" =>
      /\ \A j, k \in 1..Len(events) : j < k => Rank(events[j]) <= Rank(events[k])
      /\ Count("platform") <= 1 /\ Count("create") <= 1
      /\ Len(lookups) = Count("lookup") /\ Len(requests) = Count("http")
      /\ Happened("platform") => version.some
      /\ Happened("http") => (version.some /\ platform.some /\ Happened("platform")
                               /\ url = Some(DriverUrl(version.val, platform.val))
                               /\ UriValid(url.val)
                               /\ requests[1] = RequestTarget(url.val))
      /\ Happened("create") => (archive.some /\ Happened("http"))
      /\ fs # fs0 => Happened("create")
      /\ IsErr(result) =>
            /\ Done
            /\ result.kind = "Unsupported" => events = <<>>
            /\ result.kind \in {"Powershell", "NoInstallFound"} =>
                  (LastEvent = "lookup" /\ ~version.some)
            /\ result.kind = "Platform" => (LastEvent = "platform" /\ ~platform.some)
            /\ result.kind = "UReq" =>
                  (LastEvent \in {"platform", "http"} /\ platform.some /\ ~archive.some)
            /\ result.kind = "Zip" => (LastEvent = "http" /\ archive.some)
            /\ result.kind = "Io" =>
                  \/ LastEvent = "http" /\ archive.some
                  \/ LastEvent \in {"copy failed part-way", "copy failed at end"}
            /\ LastEvent \in {"none", "lookup", "platform", "http"} => fs = fs0

C5_Witness ==
    /\ entry = "main" /\ Done
    /\ IsErrKind(result, "UReq")
    /\ Len(lookups) = 2
    /\ version.some /\ platform.some
    /\ events = <<"lookup", "lookup", "platform", "http">>

(* C6: Platform::current gives the vendor label of each of the six known   *)
(* (OS, architecture) pairs and fails with the Platform error carrying the *)
(* pair for every other one.                                               *)
KnownPlatforms ==
    { <<"windows", "x86_64", "win64">>, <<"windows", "aarch64", "arm64">>,
      <<"windows", "x86", "win32">>, <<"macos", "x86_64", "mac64">>,
      <<"macos", "aarch64", "mac64_m1">>, <<"linux", "x86_64", "linux64">> }

C6_PlatformLabels ==
    (entry = "Platform::current" /\ Done) =>
      /\ \A t \in KnownPlatforms :
            (os = t[1] /\ arch = t[2]) => (IsOk(result) /\ result.val = t[3])
      /\ (~\E t \in KnownPlatforms : os = t[1] /\ arch = t[2]) =>
            (IsErrKind(result, "Platform") /\ result.cause = [os |-> os, arch |-> arch])

C6_Witness ==
    /\ entry = "Platform::current" /\ Done
    /\ os = "windows" /\ arch = "aarch64"
    /\ IsOk(result) /\ result.val = "arm64"

\* The error kind fetch gives a network failure
NetworkErrorKind ==
    FetchResult(<<"https://msedgedriver.microsoft.com/">>,
                [redirects |-> <<>>, call |-> "Transport", read |-> "Ok",
                 body |-> NoBody]).kind

\* The response was received and its body arrived whole
BodyArrived == response.some /\ response.val.call = "Ok" /\ response.val.read = "Ok"

(* C7: fetch returns the whole body when it is exactly 100 MiB or smaller, *)
(* fails with an error kind of its own, distinct from the kind of a        *)
(* network failure, when the body is larger, and never returns more than   *)
(* 100 MiB.                                                                *)
C7_BodyCeiling ==
    /\ (BodyArrived /\ response.val.body.size <= HundredMiB)
         => (IsOk(FetchReturned) /\ FetchReturned.val = response.val.body)
    /\ (BodyArrived /\ response.val.body.size > HundredMiB)
         => (IsErr(FetchReturned) /\ FetchReturned.kind # NetworkErrorKind)
    /\ IsOk(FetchReturned) => FetchReturned.val.size <= HundredMiB

(* C9: extract creates or truncates the destination before it copies and   *)
(* cleans nothing up: when the copy fails part-way extract returns an I/O  *)
(* error and the destination holds a strict prefix of the member, its      *)
(* previous content gone.                                                  *)
C9_PartialFile ==
    /\ pc = "copy" => fs = [fs0 EXCEPT ![filename.val] = Some(<<>>)]
    /\ LastEvent = "copy failed part-way" =>
          LET member == archive.val.entries[filename.val].val
              dest == fs[filename.val]
          IN /\ IsErrKind(result, "Io")
             /\ dest.some
             /\ IsPrefix(dest.val, member) /\ Len(dest.val) < Len(member)
             /\ \A n \in FileNames \ {filename.val} : fs[n] = fs0[n]

C9_Witness ==
    /\ entry = "extract" /\ Done
    /\ LastEvent = "copy failed part-way"
    /\ fs0[filename.val] = Some(OldContent)
    /\ fs[filename.val].some /\ Len(fs[filename.val].val) = 1
    /\ Len(archive.val.entries[filename.val].val) = 2

(* C10: built for a target other than Windows, main fails with Unsupported *)
(* before any stage: no lookup, no platform resolution, no HTTP request,   *)
(* no file; so no run of main uses the labels mac64, mac64_m1, linux64 or  *)
(* the member name msedgedriver.                                           *)
C10_NonWindowsUnsupported ==
    entry = "main" =>
      /\ os # "windows" =>
            /\ pc \in {"main", "done"}
            /\ Done => IsErrKind(result, "Unsupported")
            /\ events = <<>> /\ lookups = <<>> /\ requests = <<>>
            /\ ~version.some /\ ~platform.some /\ ~archive.some
            /\ fs = fs0
      /\ platform.some => platform.val \notin {"mac64", "mac64_m1", "linux64"}
      /\ filename.some => filename.val # "msedgedriver"
      /\ url.some =>
            url.val \in {DriverUrl(version.val, p) : p \in {"win64", "arm64", "win32"}}
      /\ requests # <<>> => requests[1] = RequestTarget(url.val)

C10_Witness ==
    /\ entry = "main" /\ Done
    /\ os = "macos" /\ arch = "aarch64"
    /\ IsErrKind(result, "Unsupported")
    /\ events = <<>>

====
